---- MODULE Spec2Model ----
(***************************************************************************)
(* PDFDailyDigestBot: the reading cursor of a Document, its segmentation   *)
(* (Document.get_next_paragraph), the progress percentage, the document    *)
(* store (save_document, activate_document) and the two threads that       *)
(* advance the cursor: the dispatcher thread running the command handlers  *)
(* and the scheduler thread running send_daily_paragraph.                  *)
(***************************************************************************)
EXTENDS Integers, Sequences, FiniteSets, TLC

VARIABLES
    users,       \* table `user`: sequence of telegram ids, User.id = index
    documents,   \* table `document`: sequence of rows, Document.id = index
    dispatcher,  \* the dispatcher thread: the handler it runs and its session
    daily,       \* the scheduler thread: send_daily_paragraph and its session
    sent,        \* the last message the bot sent, or the error it logged
    obj,         \* a Document instance on which the methods are called directly
    args,        \* the arguments (min_length, max_length) of those calls
    before,      \* obj.current_position before the last direct call
    ret,         \* what the last direct call returned
    calls        \* number of direct calls made on obj

vars == <<users, documents, dispatcher, daily, sent,
          obj, args, before, ret, calls>>

botVars == <<users, documents, dispatcher, daily, sent>>
callVars == <<obj, args, before, ret, calls>>

(***************************************************************************)
(* Bounds of the model                                                     *)
(***************************************************************************)
MaxTextLen == 4        \* longest text enumerated for the direct calls
MaxParam == 3          \* largest min_length / max_length enumerated
MaxCalls == 3          \* direct calls made on one Document instance
MaxProgressLen == 50   \* longest content for get_progress_percentage
NumUsers == 2          \* telegram users that talk to the bot
MaxDocs == 2           \* rows of the document table
MaxReads == 7          \* calls made one after the other on one document

(***************************************************************************)
(* Program constants                                                       *)
(***************************************************************************)
DefaultMinLength == 100    \* get_next_paragraph(min_length=100, ...)
DefaultMaxLength == 500    \* get_next_paragraph(..., max_length=500)
LastPartLen == 100         \* remaining_content[max(0, i-100):i+1]
MinTextLen == 10           \* len(text.strip()) < 10
HiBits == 18               \* a Python float is an IEEE-754 binary64: its
MidBits == 18              \* significand has 18 + 18 + 17 = 53 bits
LoBits == 17
MaxFloatLen == 8192        \* 2^13: n * 2^18 stays below 2^31
Hundred == 100             \* ... * 100 in get_progress_percentage

EndOfDocument == <<"Fin del documento.">>
None == 0                  \* no row: ids start at 1

(***************************************************************************)
(* Strings are sequences of one-character strings.                         *)
(***************************************************************************)
Max(a, b) == IF a >= b THEN a ELSE b
Min(a, b) == IF a <= b THEN a ELSE b
SetMin(S) == CHOOSE x \in S : \A y \in S : x <= y
SetMax(S) == CHOOSE x \in S : \A y \in S : x >= y

\* the position a slice bound a denotes in a sequence of n items: a negative
\* bound counts from the end, and every bound is clipped to 0..n
SliceBound(n, a) == IF a < 0 THEN Max(0, n + a) ELSE Min(a, n)

\* s[a:b] of Python (0-based, b exclusive)
Slice(s, a, b) == SubSeq(s, SliceBound(Len(s), a) + 1, SliceBound(Len(s), b))

\* str.isspace() for the characters of the model
Whitespace == {" ", "\n", "\t"}

\* s.strip()
Strip(s) ==
    IF \A k \in 1..Len(s) : s[k] \in Whitespace THEN <<>>
    ELSE SubSeq(s,
                CHOOSE k \in 1..Len(s) :
                    s[k] \notin Whitespace
                    /\ \A j \in 1..(k - 1) : s[j] \in Whitespace,
                CHOOSE k \in 1..Len(s) :
                    s[k] \notin Whitespace
                    /\ \A j \in (k + 1)..Len(s) : s[j] \in Whitespace)

\* s.rfind(' '): 0-based index of the last space, -1 when there is none
RFindSpace(s) ==
    LET hits == {k \in 1..Len(s) : s[k] = " "}
    IN IF hits = {} THEN -1 ELSE SetMax(hits) - 1

Rep(c, n) == [k \in 1..n |-> c]

\* s.lower() for the letters the file names of the model are written in
LowerCase == [c \in {"B", "P", "D", "F", "E", "U"} |->
                 CASE c = "B" -> "b" [] c = "P" -> "p" [] c = "D" -> "d"
                   [] c = "F" -> "f" [] c = "E" -> "e" [] c = "U" -> "u"]
Lower(s) == [k \in 1..Len(s) |->
                IF s[k] \in DOMAIN LowerCase THEN LowerCase[s[k]] ELSE s[k]]

\* s.endswith(suffix)
EndsWith(s, suffix) ==
    /\ Len(s) >= Len(suffix)
    /\ SubSeq(s, Len(s) - Len(suffix) + 1, Len(s)) = suffix

(***************************************************************************)
(* Document.get_next_paragraph                                             *)
(***************************************************************************)
\* the test of the sentence end without the look at the next character
SentenceEnd_any_next(remaining_content, i) ==
    /\ remaining_content[i + 1] \in {".", "!", "?"}
    /\ i + 1 < Len(remaining_content)

\* char in ['.', '!', '?'] and i + 1 < len(remaining_content) and
\* remaining_content[i+1] in (' ', '\n'), for the 0-based index i
SentenceEnd(remaining_content, i) ==
    /\ remaining_content[i + 1] \in {".", "!", "?"}
    /\ i + 1 < Len(remaining_content)
    /\ remaining_content[i + 2] \in {" ", "\n"}

\* the first break without the test of min_length
NaturalBreak_any_length(remaining_content, i, min_length) ==
    SentenceEnd(remaining_content, i)

\* the first break of the loop: current_length = i + 1
NaturalBreak(remaining_content, i, min_length) ==
    SentenceEnd(remaining_content, i) /\ i + 1 >= min_length

\* the second break tested with > instead of >=
CapBreak_late(i, max_length) == i + 1 > max_length

\* the second break of the loop
CapBreak(i, max_length) == i + 1 >= max_length

\* the first break taking the whitespace after the punctuation mark too
NaturalEnd_after_space(current_position, i) == current_position + i + 2

\* paragraph_end chosen by the first break at index i
NaturalEnd(current_position, i) == current_position + i + 1

\* the rest of the text without its last character
TailEnd_keep_last(content) == Len(content) - 1

\* the rest of the text, taken one character too far
TailEnd_past_end(content) == Len(content) + 1

\* paragraph_end when the loop ends without a break: the rest of the text
TailEnd(content) == Len(content)

\* paragraph_end chosen by the hard cap at index i
CapEnd(current_position, remaining_content, i) ==
    LET last_part == Slice(remaining_content, Max(0, i - LastPartLen), i + 1)
        last_space == RFindSpace(last_part)
    IN IF last_space # -1
       THEN current_position + i - (Len(last_part) - last_space) + 1
       ELSE current_position + i + 1

\* the loop with the two tests in the other order: the cap is tested first
ParagraphEnd_cap_first(content, current_position, min_length, max_length) ==
    LET remaining_content == Slice(content, current_position, Len(content))
        breaks == {i \in 0..(Len(remaining_content) - 1) :
                      \/ NaturalBreak(remaining_content, i, min_length)
                      \/ CapBreak(i, max_length)}
    IN IF breaks = {} THEN TailEnd(content)
       ELSE LET i == SetMin(breaks)
            IN IF CapBreak(i, max_length)
               THEN CapEnd(current_position, remaining_content, i)
               ELSE NaturalEnd(current_position, i)

\* paragraph_end as the for loop and the `if not found_end` after it set it
ParagraphEnd(content, current_position, min_length, max_length) ==
    LET remaining_content == Slice(content, current_position, Len(content))
        breaks == {i \in 0..(Len(remaining_content) - 1) :
                      \/ NaturalBreak(remaining_content, i, min_length)
                      \/ CapBreak(i, max_length)}
    IN IF breaks = {} THEN TailEnd(content)
       ELSE LET i == SetMin(breaks)
            IN IF NaturalBreak(remaining_content, i, min_length)
               THEN NaturalEnd(current_position, i)
               ELSE CapEnd(current_position, remaining_content, i)

\* the early return tested with > instead of >=
AtEnd_strict(self) == self.current_position > Len(self.content)

\* the early return of get_next_paragraph
AtEnd(self) == self.current_position >= Len(self.content)

\* get_next_paragraph: the returned pair and the instance after the call
get_next_paragraph(self, min_length, max_length) ==
    IF AtEnd(self)
    THEN [paragraph |-> EndOfDocument, is_final |-> TRUE, self |-> self]
    ELSE LET paragraph_end == ParagraphEnd(self.content, self.current_position,
                                           min_length, max_length)
         IN [paragraph |-> Strip(Slice(self.content, self.current_position,
                                       paragraph_end)),
             is_final |-> paragraph_end >= Len(self.content),
             self |-> [self EXCEPT !.current_position = paragraph_end]]

(***************************************************************************)
(* Python float arithmetic of get_progress_percentage.  A float is an      *)
(* IEEE-754 binary64 with a 53-bit significand; / and * round to nearest,  *)
(* ties to even.  The significand is kept in three limbs of 18, 18 and 17  *)
(* bits, so that every product below stays within 32 bits: the float       *)
(* [hi, mid, lo, exp] is (hi * 2^35 + mid * 2^17 + lo) * 2^(exp - 52),     *)
(* with 2^17 <= hi < 2^18, and zero is [0, 0, 0, 0].  The arithmetic is    *)
(* exact for contents shorter than MaxFloatLen characters.                 *)
(***************************************************************************)
FloatZero == [hi |-> 0, mid |-> 0, lo |-> 0, exp |-> 0]
FloatOne == [hi |-> 2^(HiBits - 1), mid |-> 0, lo |-> 0, exp |-> 0]

\* round to nearest, ties to even: the significand hi:mid:lo is followed by
\* a dropped part that is below (-1), equal to (0) or above (1) half a unit
RoundNearestEven(hi, mid, lo, exp, dropped) ==
    LET up == dropped = 1 \/ (dropped = 0 /\ lo % 2 = 1)
        lo1 == IF up THEN lo + 1 ELSE lo
        mid1 == mid + lo1 \div 2^LoBits
        hi1 == hi + mid1 \div 2^MidBits
    IN IF hi1 = 2^HiBits
       THEN [hi |-> 2^(HiBits - 1), mid |-> 0, lo |-> 0, exp |-> exp + 1]
       ELSE [hi |-> hi1, mid |-> mid1 % 2^MidBits, lo |-> lo1 % 2^LoBits,
             exp |-> exp]

\* -1, 0 or 1 as a is below, equal to or above b
Compare(a, b) == IF a < b THEN -1 ELSE IF a = b THEN 0 ELSE 1

\* position of the first 1 in the binary expansion of r / n, for 0 < r < n
RECURSIVE LeadingBit(_, _)
LeadingBit(r, n) == IF 2 * r >= n THEN 1 ELSE 1 + LeadingBit(2 * r, n)

\* p / n of two ints with 0 <= p <= n, 0 < n < MaxFloatLen (true division,
\* correctly rounded): long division of p * 2^(lead - 1) by n, 18, 18 and
\* 17 bits at a time; the remainder decides the rounding
FloatDiv(p, n) ==
    IF p = 0 THEN FloatZero
    ELSE IF p = n THEN FloatOne
    ELSE LET lead == LeadingBit(p, n)
             r0 == p * 2^(lead - 1)
             r1 == (r0 * 2^HiBits) % n
             r2 == (r1 * 2^MidBits) % n
             r3 == (r2 * 2^LoBits) % n
         IN RoundNearestEven((r0 * 2^HiBits) \div n, (r1 * 2^MidBits) \div n,
                             (r2 * 2^LoBits) \div n, -lead,
                             Compare(2 * r3, n))

\* x * 100.0: the exact product of the significand by 100 has 59 or 60 bits,
\* of which the lowest 6 or 7 are dropped and decide the rounding
FloatTimesHundred(x) ==
    IF x = FloatZero THEN FloatZero
    ELSE LET p3 == x.lo * Hundred
             p2 == x.mid * Hundred + p3 \div 2^LoBits
             p1 == x.hi * Hundred + p2 \div 2^MidBits
             f3 == p3 % 2^LoBits
             f2 == p2 % 2^MidBits
             s == IF p1 < 2^(HiBits + 6) THEN 6 ELSE 7
         IN RoundNearestEven(p1 \div 2^s,
                             (p1 % 2^s) * 2^(MidBits - s) + f2 \div 2^s,
                             (f2 % 2^s) * 2^(LoBits - s) + f3 \div 2^s,
                             x.exp + s,
                             Compare(f3 % 2^s, 2^(s - 1)))

\* int(x) for a float 0 <= x < 2^18: truncation
FloatToInt(x) ==
    IF x.exp < 0 THEN 0 ELSE x.hi \div 2^(HiBits - 1 - x.exp)

(***************************************************************************)
(* Document.get_progress_percentage                                        *)
(***************************************************************************)
get_progress_percentage(self) ==
    IF self.content = <<>> THEN 0
    ELSE Min(Hundred,
             FloatToInt(FloatTimesHundred(
                 FloatDiv(self.current_position, Len(self.content)))))

(***************************************************************************)
(* The record store: tables `user` and `document`                          *)
(***************************************************************************)
\* session.query(User).filter_by(telegram_id=telegram_id).first()
UserId(table, telegram_id) ==
    IF \E k \in DOMAIN table : table[k] = telegram_id
    THEN CHOOSE k \in DOMAIN table : table[k] = telegram_id
    ELSE None

\* get_or_create_user: the user table after the call and the User.id
get_or_create_user(table, telegram_id) ==
    IF UserId(table, telegram_id) # None
    THEN [users |-> table, id |-> UserId(table, telegram_id)]
    ELSE [users |-> Append(table, telegram_id), id |-> Len(table) + 1]

\* user.documents
UserDocuments(table, user_id) ==
    {d \in DOMAIN table : table[d].user_id = user_id}

\* save_document without the loop that deactivates the user's documents
save_document_keep_active(table, user_id, filename, content) ==
    Append(table,
           [user_id |-> user_id, filename |-> filename, content |-> content,
            current_position |-> 0, active |-> TRUE])

\* save_document inserting the new document without the active flag
save_document_inactive(table, user_id, filename, content) ==
    Append([d \in DOMAIN table |->
               IF d \in UserDocuments(table, user_id)
               THEN [table[d] EXCEPT !.active = FALSE]
               ELSE table[d]],
           [user_id |-> user_id, filename |-> filename, content |-> content,
            current_position |-> 0, active |-> FALSE])

\* save_document: the document table it commits
save_document(table, user_id, filename, content) ==
    Append([d \in DOMAIN table |->
               IF d \in UserDocuments(table, user_id)
               THEN [table[d] EXCEPT !.active = FALSE]
               ELSE table[d]],
           [user_id |-> user_id, filename |-> filename, content |-> content,
            current_position |-> 0, active |-> TRUE])

\* the query of the active document without its user_id filter
get_active_document_any_user(table, user_id) ==
    LET rows == {d \in DOMAIN table : table[d].active}
    IN IF rows = {} THEN None ELSE SetMin(rows)

\* get_active_document: the Document.id or None
get_active_document(table, user_id) ==
    LET rows == {d \in DOMAIN table :
                    table[d].user_id = user_id /\ table[d].active}
    IN IF rows = {} THEN None ELSE SetMin(rows)

\* the query of activate_document without its user_id filter
OwnedDocument_any_owner(table, document_id, user_id) ==
    document_id \in DOMAIN table

\* the query of activate_document: filter_by(id=document_id, user_id=user.id)
OwnedDocument(table, document_id, user_id) ==
    /\ document_id \in DOMAIN table
    /\ table[document_id].user_id = user_id

\* activate_document without the deactivation of the other documents
activate_document_target_only(table, document_id, user_id) ==
    IF ~OwnedDocument(table, document_id, user_id)
    THEN [document |-> None, documents |-> table]
    ELSE [document |-> document_id,
          documents |-> [table EXCEPT ![document_id].active = TRUE]]

\* activate_document putting the activated document back at its start
activate_document_rewind(table, document_id, user_id) ==
    IF ~OwnedDocument(table, document_id, user_id)
    THEN [document |-> None, documents |-> table]
    ELSE [document |-> document_id,
          documents |-> [d \in DOMAIN table |->
               IF d \in UserDocuments(table, user_id)
               THEN [table[d] EXCEPT !.active = (d = document_id),
                                     !.current_position =
                                         IF d = document_id THEN 0 ELSE @]
               ELSE table[d]]]

\* activate_document: the returned Document.id (or None) and the table
activate_document(table, document_id, user_id) ==
    IF ~OwnedDocument(table, document_id, user_id)
    THEN [document |-> None, documents |-> table]
    ELSE [document |-> document_id,
          documents |-> [d \in DOMAIN table |->
               IF d \in UserDocuments(table, user_id)
               THEN [table[d] EXCEPT !.active = (d = document_id)]
               ELSE table[d]]]

(***************************************************************************)
(* Inputs of the model                                                     *)
(***************************************************************************)
TelegramIds == 1..NumUsers

\* a text of three fragments under the default lengths: cuts at 100 and 200
Book == Rep("a", 99) \o <<".", " ">> \o Rep("b", 98) \o <<".", " ">>
            \o Rep("c", 9) \o <<".">>
\* an extraction that found almost nothing
Scrap == <<"s", "c", "r", "a", "p">>

\* extractions of nine and of ten characters
Nine == <<"N", "i", "n", "e", " ", "c", "h", "a", "r">>
Ten == <<"T", "e", "n", " ", "c", "h", "a", "r", "s", ".">>

ExtractedTexts == {Book, Scrap}

\* file names: b.pdf, n.txt, B.PDF, b.epub, b.pdf.txt, pdf
BookPdf == <<"b", ".", "p", "d", "f">>
NotesTxt == <<"n", ".", "t", "x", "t">>
UpperPdf == <<"B", ".", "P", "D", "F">>
BookEpub == <<"b", ".", "e", "p", "u", "b">>
PdfTxt == <<"b", ".", "p", "d", "f", ".", "t", "x", "t">>
BarePdf == <<"p", "d", "f">>

Filenames == {BookPdf, NotesTxt}

\* is_pdf or is_epub: filename_lower.endswith('.pdf'), ...endswith('.epub')
Supported(filename) ==
    \/ EndsWith(Lower(filename), <<".", "p", "d", "f">>)
    \/ EndsWith(Lower(filename), <<".", "e", "p", "u", "b">>)

\* the test of the extracted text with <= instead of <
NoText_ten_too(text) == text = <<>> \/ Len(Strip(text)) <= MinTextLen

\* not text or len(text.strip()) < 10
NoText(text) == text = <<>> \/ Len(Strip(text)) < MinTextLen

(***************************************************************************)
(* The two threads.  The handlers run one at a time on the dispatcher       *)
(* thread (none is registered with run_async); send_daily_paragraph runs   *)
(* on a thread of the BackgroundScheduler.  Each opens its own session     *)
(* (get_db_session).  A query reads the committed rows and takes no lock   *)
(* (the SQLite driver begins a transaction only at the first UPDATE or     *)
(* INSERT); session.commit() writes the changed columns of the loaded      *)
(* rows and expires them, so the next attribute access reads the row       *)
(* again.  A thread that is advancing a cursor holds, in its               *)
(* session, the Document it loaded: its id (doc), the current_position it  *)
(* read (from) and, after get_next_paragraph, the new one (to).  base is   *)
(* the progress last shown for the document when the call started.         *)
(***************************************************************************)
Idle == [pc |-> "idle", queue |-> <<>>, user |-> None, doc |-> None,
         from |-> 0, to |-> 0, is_final |-> FALSE, base |-> 0]

NoMessage == [kind |-> "none", user |-> None, doc |-> None, progress |-> 0]

\* progress last shown for a document, 0 when the last message was not about it
Shown(doc) ==
    IF sent.kind \in {"fragment", "finished"} /\ sent.doc = doc
    THEN sent.progress ELSE 0

\* the session loads the active Document of a user
Loaded(thread, user_id, doc) ==
    [thread EXCEPT !.pc = "loaded", !.user = user_id, !.doc = doc,
                   !.from = documents[doc].current_position,
                   !.base = Shown(doc)]

\* the commit as an UPDATE without its WHERE clause: every row is written
Committed_every_row(thread, table) ==
    LET r == get_next_paragraph(
                 [content |-> table[thread.doc].content,
                  current_position |-> thread.from],
                 DefaultMinLength, DefaultMaxLength)
    IN [thread |-> [thread EXCEPT !.pc = "committed",
                                  !.to = r.self.current_position,
                                  !.is_final = r.is_final],
        documents |-> [d \in DOMAIN table |->
                          [table[d] EXCEPT !.current_position =
                                               r.self.current_position]]]

\* active_doc.get_next_paragraph() on the loaded instance, then
\* session.commit(): an UPDATE of current_position when it changed
Committed(thread, table) ==
    LET r == get_next_paragraph(
                 [content |-> table[thread.doc].content,
                  current_position |-> thread.from],
                 DefaultMinLength, DefaultMaxLength)
    IN [thread |-> [thread EXCEPT !.pc = "committed",
                                  !.to = r.self.current_position,
                                  !.is_final = r.is_final],
        documents |-> IF r.self.current_position # thread.from
                      THEN [table EXCEPT ![thread.doc].current_position =
                                             r.self.current_position]
                      ELSE table]

\* the message built after the commit: the expired instance is reloaded by
\* get_progress_percentage; a final fragment shows 100%
FragmentMessage(thread) ==
    [kind |-> IF thread.is_final THEN "finished" ELSE "fragment",
     user |-> None, doc |-> thread.doc,
     progress |-> IF thread.is_final THEN Hundred
                  ELSE get_progress_percentage(documents[thread.doc])]

\* a rollback that writes back the cursor the session had loaded
RolledBack_restores(thread, table) ==
    [table EXCEPT ![thread.doc].current_position = thread.from]

\* session.rollback(): what the session has not committed is dropped, and
\* what it has committed stays in the table
RolledBack(thread, table) == table

\* logger.error(...): no message is sent for the document of the thread
ErrorLogged(kind, thread) ==
    [kind |-> kind, user |-> thread.user, doc |-> thread.doc, progress |-> 0]

\* an except clause that leaves the loop over the users
NextUser_abort(thread) == [Idle EXCEPT !.pc = "loop"]

\* the except clause inside the loop: on to the next user
NextUser(thread) == [Idle EXCEPT !.pc = "loop", !.queue = Tail(thread.queue)]

(***************************************************************************)
(* Handlers of the dispatcher thread (one update at a time)                *)
(***************************************************************************)
\* next_paragraph_command up to the query of the active document
next_paragraph_query(telegram_id) ==
    /\ dispatcher.pc = "idle"
    /\ LET u == get_or_create_user(users, telegram_id)
           active_doc == get_active_document(documents, u.id)
       IN /\ users' = u.users
          /\ IF active_doc = None
             THEN /\ sent' = [kind |-> "no_active_document", user |-> u.id,
                              doc |-> None, progress |-> 0]
                  /\ UNCHANGED dispatcher
             ELSE /\ dispatcher' = Loaded(dispatcher, u.id, active_doc)
                  /\ UNCHANGED sent
    /\ UNCHANGED <<documents, daily>>

\* next_paragraph_command: get_next_paragraph() and session.commit()
next_paragraph_commit ==
    /\ dispatcher.pc = "loaded"
    /\ LET c == Committed(dispatcher, documents)
       IN dispatcher' = c.thread /\ documents' = c.documents
    /\ UNCHANGED <<users, daily, sent>>

\* next_paragraph_command: get_progress_percentage() and reply_text
next_paragraph_reply ==
    /\ dispatcher.pc = "committed"
    /\ sent' = FragmentMessage(dispatcher)
    /\ dispatcher' = Idle
    /\ UNCHANGED <<users, documents, daily>>

\* next_paragraph_command: reply_text raises; get_db_session rolls back,
\* logs the error and raises again
next_paragraph_reply_fails ==
    /\ dispatcher.pc = "committed"
    /\ documents' = RolledBack(dispatcher, documents)
    /\ sent' = ErrorLogged("handler_error", dispatcher)
    /\ dispatcher' = Idle
    /\ UNCHANGED <<users, daily>>

\* handle_switch_callback with callback data switch_<document_id>
handle_switch_callback(telegram_id, document_id) ==
    /\ dispatcher.pc = "idle"
    /\ LET u == get_or_create_user(users, telegram_id)
           a == activate_document(documents, document_id, u.id)
       IN /\ users' = u.users
          /\ documents' = a.documents
          /\ sent' = IF a.document # None
                     THEN [kind |-> "switched", user |-> None,
                           doc |-> a.document, progress |-> 0]
                     ELSE [kind |-> "switch_failed", user |-> u.id,
                           doc |-> document_id, progress |-> 0]
    /\ UNCHANGED <<dispatcher, daily>>

\* handle_document_upload of a file whose extraction gives text
handle_document_upload(telegram_id, filename, text) ==
    /\ dispatcher.pc = "idle"
    /\ IF ~Supported(filename)
       THEN /\ sent' = [kind |-> "unsupported", user |-> None, doc |-> None,
                        progress |-> 0]
            /\ UNCHANGED <<users, documents>>
       ELSE IF NoText(text)
       THEN /\ sent' = [kind |-> "no_text", user |-> None, doc |-> None,
                        progress |-> 0]
            /\ UNCHANGED <<users, documents>>
       ELSE /\ Len(documents) < MaxDocs
            /\ LET u == get_or_create_user(users, telegram_id)
               IN /\ users' = u.users
                  /\ documents' = save_document(documents, u.id, filename, text)
                  /\ sent' = [kind |-> "uploaded", user |-> None,
                              doc |-> Len(documents) + 1, progress |-> 0]
    /\ UNCHANGED <<dispatcher, daily>>

(***************************************************************************)
(* send_daily_paragraph on the scheduler thread                            *)
(***************************************************************************)
\* users = session.query(User).all()
daily_begin ==
    /\ daily.pc = "idle"
    /\ daily' = [Idle EXCEPT !.pc = "loop",
                             !.queue = [k \in 1..Len(users) |-> k]]
    /\ UNCHANGED <<users, documents, dispatcher, sent>>

\* the query of the active document of the next user; `continue` without one
daily_query ==
    /\ daily.pc = "loop"
    /\ daily.queue # <<>>
    /\ LET user_id == Head(daily.queue)
           active_doc == get_active_document(documents, user_id)
       IN daily' = IF active_doc = None
                   THEN [daily EXCEPT !.queue = Tail(daily.queue)]
                   ELSE Loaded(daily, user_id, active_doc)
    /\ UNCHANGED <<users, documents, dispatcher, sent>>

\* get_next_paragraph() and session.commit()
daily_commit ==
    /\ daily.pc = "loaded"
    /\ LET c == Committed(daily, documents)
       IN daily' = c.thread /\ documents' = c.documents
    /\ UNCHANGED <<users, dispatcher, sent>>

\* get_progress_percentage() and context.bot.send_message
daily_send ==
    /\ daily.pc = "committed"
    /\ sent' = FragmentMessage(daily)
    /\ daily' = [Idle EXCEPT !.pc = "loop", !.queue = Tail(daily.queue)]
    /\ UNCHANGED <<users, documents, dispatcher>>

\* session.commit() raises: the transaction is rolled back, the except
\* clause of the loop logs the error
daily_commit_fails ==
    /\ daily.pc = "loaded"
    /\ documents' = RolledBack(daily, documents)
    /\ sent' = ErrorLogged("daily_error", daily)
    /\ daily' = NextUser(daily)
    /\ UNCHANGED <<users, dispatcher>>

\* context.bot.send_message raises: the except clause of the loop logs it
daily_send_fails ==
    /\ daily.pc = "committed"
    /\ sent' = ErrorLogged("daily_error", daily)
    /\ daily' = NextUser(daily)
    /\ UNCHANGED <<users, documents, dispatcher>>

\* the loop is over and the session is closed
daily_end ==
    /\ daily.pc = "loop"
    /\ daily.queue = <<>>
    /\ daily' = Idle
    /\ UNCHANGED <<users, documents, dispatcher, sent>>

(***************************************************************************)
(* The bot                                                                 *)
(***************************************************************************)
NoCall ==
    /\ obj = [content |-> <<>>, current_position |-> 0]
    /\ args = [min_length |-> DefaultMinLength, max_length |-> DefaultMaxLength]
    /\ before = 0
    /\ ret = <<>>
    /\ calls = 0

EmptyStore ==
    /\ users = <<>>
    /\ documents = <<>>
    /\ dispatcher = Idle
    /\ daily = Idle
    /\ sent = NoMessage

Init == EmptyStore /\ NoCall

Next ==
    /\ UNCHANGED callVars
    /\ \/ \E t \in TelegramIds : next_paragraph_query(t)
       \/ next_paragraph_commit
       \/ next_paragraph_reply
       \/ \E t \in TelegramIds, d \in 1..MaxDocs : handle_switch_callback(t, d)
       \/ \E t \in TelegramIds, f \in Filenames, x \in ExtractedTexts :
              handle_document_upload(t, f, x)
       \/ daily_begin
       \/ daily_query
       \/ daily_commit
       \/ daily_send
       \/ daily_end

Spec == Init /\ [][Next]_vars

(***************************************************************************)
(* The two threads advancing the cursors of a filled store, with the       *)
(* commit of the daily job and the delivery of the messages failing        *)
(***************************************************************************)
\* every known user is registered: User.id k has telegram id k
Registered == [k \in 1..NumUsers |-> k]

\* the document tables that up to n uploads of the book leave
RECURSIVE Uploads(_)
Uploads(n) ==
    IF n = 0 THEN {<<>>}
    ELSE LET fewer == Uploads(n - 1)
         IN fewer \cup {save_document(table, u, BookPdf, Book) :
                           table \in {f \in fewer : Len(f) = n - 1},
                           u \in 1..NumUsers}

FaultInit ==
    /\ users = Registered
    /\ documents \in Uploads(MaxDocs)
    /\ dispatcher = Idle
    /\ daily = Idle
    /\ sent = NoMessage
    /\ NoCall

FaultNext ==
    /\ UNCHANGED callVars
    /\ \/ \E t \in TelegramIds : next_paragraph_query(t)
       \/ next_paragraph_commit
       \/ next_paragraph_reply
       \/ next_paragraph_reply_fails
       \/ daily_begin
       \/ daily_query
       \/ daily_commit
       \/ daily_commit_fails
       \/ daily_send
       \/ daily_send_fails
       \/ daily_end

FaultSpec == FaultInit /\ [][FaultNext]_vars

(***************************************************************************)
(* The dispatcher thread alone, receiving files of every kind              *)
(***************************************************************************)
UploadNames == {BookPdf, NotesTxt, UpperPdf, BookEpub, PdfTxt, BarePdf}
UploadTexts == {<<>>, Scrap, Nine, Ten}

UploadNext ==
    /\ UNCHANGED callVars
    /\ \/ \E t \in TelegramIds, f \in UploadNames, x \in UploadTexts :
              handle_document_upload(t, f, x)
       \/ \E t \in TelegramIds : next_paragraph_query(t)
       \/ next_paragraph_commit
       \/ next_paragraph_reply

UploadSpec == Init /\ [][UploadNext]_vars

(***************************************************************************)
(* Direct calls of get_next_paragraph on a Document instance               *)
(***************************************************************************)
Alphabet == {"a", " ", ".", "\n"}
Texts == UNION {[1..n -> Alphabet] : n \in 0..MaxTextLen}

SegInit ==
    /\ EmptyStore
    /\ obj \in {[content |-> t, current_position |-> o] :
                   t \in Texts, o \in 0..MaxTextLen}
    /\ obj.current_position <= Len(obj.content)
    /\ args \in {[min_length |-> m, max_length |-> n] :
                    m \in 1..MaxParam, n \in 1..MaxParam}
    /\ args.min_length <= args.max_length
    /\ before = obj.current_position
    /\ ret = <<>>
    /\ calls = 0

call_get_next_paragraph ==
    /\ calls < MaxCalls
    /\ LET r == get_next_paragraph(obj, args.min_length, args.max_length)
       IN /\ obj' = r.self
          /\ ret' = <<r.paragraph, r.is_final>>
    /\ before' = obj.current_position
    /\ calls' = calls + 1
    /\ UNCHANGED args

SegNext == call_get_next_paragraph /\ UNCHANGED botVars

SegSpec == SegInit /\ [][SegNext]_vars

(***************************************************************************)
(* Direct calls on a Document instance built with any current_position:    *)
(* the column is an Integer, and nothing in the class checks it against    *)
(* the content.                                                            *)
(***************************************************************************)
AnyOffsetInit ==
    /\ EmptyStore
    /\ obj \in {[content |-> t, current_position |-> o] :
                   t \in Texts, o \in (0 - MaxTextLen - 1)..(MaxTextLen + 1)}
    /\ args \in {[min_length |-> m, max_length |-> n] :
                    m \in 1..MaxParam, n \in 1..MaxParam}
    /\ args.min_length <= args.max_length
    /\ before = obj.current_position
    /\ ret = <<>>
    /\ calls = 0

AnyOffsetSpec == AnyOffsetInit /\ [][SegNext]_vars

(***************************************************************************)
(* Direct calls on the texts of the documented scenarios                   *)
(***************************************************************************)
\* "Hello world. This is a test of segmentation. Goodbye!"
ScenarioA ==
    <<"H", "e", "l", "l", "o", " ", "w", "o", "r", "l", "d", ".", " ", "T",
      "h", "i", "s", " ", "i", "s", " ", "a", " ", "t", "e", "s", "t", " ",
      "o", "f", " ", "s", "e", "g", "m", "e", "n", "t", "a", "t", "i", "o",
      "n", ".", " ", "G", "o", "o", "d", "b", "y", "e", "!">>

HelloWorld ==
    <<"H", "e", "l", "l", "o", " ", "w", "o", "r", "l", "d", ".">>

ScenarioTexts == {ScenarioA}
ScenarioArgs == {[min_length |-> 10, max_length |-> DefaultMaxLength],
                 [min_length |-> DefaultMinLength,
                  max_length |-> DefaultMaxLength]}

ScenarioInit ==
    /\ EmptyStore
    /\ obj \in {[content |-> t, current_position |-> o] :
                   t \in ScenarioTexts, o \in 0..Len(ScenarioA)}
    /\ obj.current_position <= Len(obj.content)
    /\ args \in ScenarioArgs
    /\ before = obj.current_position
    /\ ret = <<>>
    /\ calls = 0

ScenarioSpec == ScenarioInit /\ [][SegNext]_vars

(***************************************************************************)
(* A document read to its end by the call every caller makes,              *)
(* get_next_paragraph() with the default lengths, one call after the other *)
(***************************************************************************)
\* 600 letters without a space, and 600 characters whose only space is the
\* 400th
SixHundred == Rep("a", 600)
Spaced == Rep("a", 399) \o <<" ">> \o Rep("a", 200)

ReadTexts == {Book, SixHundred, Spaced}

ReadInit ==
    /\ EmptyStore
    /\ obj \in UNION {{[content |-> t, current_position |-> o] :
                          o \in 0..Len(t)} : t \in ReadTexts}
    /\ args = [min_length |-> DefaultMinLength, max_length |-> DefaultMaxLength]
    /\ before = obj.current_position
    /\ ret = <<>>
    /\ calls = 0

\* paragraph, is_final = active_doc.get_next_paragraph()
read_on ==
    /\ calls < MaxReads
    /\ LET r == get_next_paragraph(obj, DefaultMinLength, DefaultMaxLength)
       IN /\ obj' = r.self
          /\ ret' = <<r.paragraph, r.is_final>>
    /\ before' = obj.current_position
    /\ calls' = calls + 1
    /\ UNCHANGED args

ReadNext == read_on /\ UNCHANGED botVars

ReadSpec == ReadInit /\ [][ReadNext]_vars

(***************************************************************************)
(* Direct calls of get_progress_percentage on a Document instance          *)
(***************************************************************************)
ProgressInit ==
    /\ EmptyStore
    /\ obj \in {[content |-> Rep("a", n), current_position |-> p] :
                   n \in 0..MaxProgressLen, p \in 0..MaxProgressLen}
    /\ obj.current_position <= Len(obj.content)
    /\ args = [min_length |-> DefaultMinLength, max_length |-> DefaultMaxLength]
    /\ before = obj.current_position
    /\ ret = <<>>
    /\ calls = 0

call_get_progress_percentage ==
    /\ calls < MaxCalls
    /\ ret' = <<get_progress_percentage(obj)>>
    /\ calls' = calls + 1
    /\ UNCHANGED <<obj, args, before>>

ProgressNext == call_get_progress_percentage /\ UNCHANGED botVars

ProgressSpec == ProgressInit /\ [][ProgressNext]_vars

(***************************************************************************)
(* Properties                                                              *)
(***************************************************************************)
\* a thread holds a fragment it has committed and not yet sent
Holds(thread) == thread.pc = "committed"

\* the fragment is a piece of the text, not the end-of-document message
Textual(thread) == thread.from < Len(documents[thread.doc].content)

\* C1: a manual next and the daily send that run concurrently for the same
\* user never return the same fragment: the fragments the two threads hold
\* for one document start at different cursors.
C1_DistinctFragments ==
    (Holds(dispatcher) /\ Holds(daily) /\ dispatcher.doc = daily.doc
        /\ Textual(dispatcher))
    => dispatcher.from # daily.from

\* C2: the stored current_position of a document never decreases, in any
\* step of any execution.
C2_CursorNeverDecreases ==
    [][\A d \in DOMAIN documents :
           documents'[d].current_position >= documents[d].current_position]_vars

\* C3: in every reachable state each user has at most one active Document.
C3_AtMostOneActive ==
    \A u \in DOMAIN users :
        Cardinality({d \in DOMAIN documents :
                        documents[d].user_id = u /\ documents[d].active}) <= 1

\* a user owns two documents after an activation, one of them active
C3_Witness ==
    /\ sent.kind = "switched"
    /\ \E d1, d2 \in DOMAIN documents :
          /\ d1 # d2
          /\ documents[d1].user_id = documents[d2].user_id
          /\ documents[d1].active
          /\ ~documents[d2].active

\* C4: in every reachable state every Document has
\* 0 <= current_position <= len(content).
C4_CursorInBounds ==
    \A d \in DOMAIN documents :
        /\ documents[d].current_position >= 0
        /\ documents[d].current_position <= Len(documents[d].content)

\* a document has been read to its end by a thread that still holds the
\* last fragment, while the other thread holds a fragment of it too
C4_Witness ==
    /\ Holds(dispatcher) /\ Holds(daily) /\ dispatcher.doc = daily.doc
    /\ documents[daily.doc].current_position = Len(documents[daily.doc].content)
    /\ documents[daily.doc].current_position > 0

\* C5: with the cursor at len(text) every call of get_next_paragraph returns
\* the end-of-document message with is_final true and leaves the cursor
\* where it is, however often it is repeated.
C5_TerminalIdempotent ==
    (calls > 0 /\ before = Len(obj.content))
    => (ret = <<EndOfDocument, TRUE>> /\ obj.current_position = before)

\* the call has been repeated on a nonempty text whose cursor is at the end
C5_Witness ==
    /\ calls >= 2
    /\ before = Len(obj.content)
    /\ obj.content # <<>>
    /\ ret = <<EndOfDocument, TRUE>>

\* C6: a call never moves the cursor back or past len(text), and it leaves
\* the cursor where it is only when the cursor is at len(text).
C6_MonotonicCursor ==
    calls > 0
    => /\ obj.current_position >= before
       /\ obj.current_position <= Len(obj.content)
       /\ obj.current_position = before => before = Len(obj.content)

\* C7: one call advances the cursor by at most max_length characters.
C7_MaxLengthBound ==
    calls > 0 => obj.current_position - before <= args.max_length

\* a call cut the text after exactly max_length characters, before its end
C7_Witness ==
    /\ calls > 0
    /\ obj.current_position - before = args.max_length
    /\ obj.current_position < Len(obj.content)

\* the thread sends the message of the fragment it holds
Sends(thread, next) == Holds(thread) /\ next.pc # "committed"

\* C8: the progress shown by an advance is an integer in [0, 100] and is not
\* below the progress shown for the document by the advance before it.
C8_ProgressMonotonic ==
    [][/\ Sends(dispatcher, dispatcher')
          => sent'.progress \in dispatcher.base..Hundred
       /\ Sends(daily, daily')
          => sent'.progress \in daily.base..Hundred]_vars

\* C9: get_progress_percentage returns min(100, floor(offset * 100 / len))
\* for a nonempty text, and 0 for an empty one.
C9_ProgressFormula ==
    calls > 0
    => ret = <<IF obj.content = <<>> THEN 0
               ELSE Min(100, (obj.current_position * 100)
                                 \div Len(obj.content))>>

\* C10: activate_document fails for a document id that does not exist or
\* belongs to another user, and then no Document changes.
C10_ForeignActivationFails ==
    [][\A t \in TelegramIds, d \in 1..MaxDocs :
           (/\ handle_switch_callback(t, d)
            /\ \/ d \notin DOMAIN documents
               \/ documents[d].user_id # UserId(users, t))
           => (documents' = documents /\ sent'.kind = "switch_failed")]_vars

\* a user who has an active document of their own was refused the
\* activation of a document of another user
C10_Witness ==
    /\ sent.kind = "switch_failed"
    /\ sent.doc \in DOMAIN documents
    /\ documents[sent.doc].user_id # sent.user
    /\ get_active_document(documents, sent.user) # None

(***************************************************************************)
(* Properties of the store: activation and ingestion                       *)
(***************************************************************************)
\* the documents of the owner of document d
Siblings(d) ==
    {e \in DOMAIN documents : documents[e].user_id = documents[d].user_id}

\* C11: when activate_document succeeds for a document D of the user, the
\* committed state has D active and every other Document of the same user
\* inactive, both in the one step that commits the activation; nothing else
\* changes.
C11_ActivationExclusive ==
    [][\A t \in TelegramIds, d \in 1..MaxDocs :
           (/\ handle_switch_callback(t, d)
            /\ d \in DOMAIN documents
            /\ UserId(users, t) # None
            /\ documents[d].user_id = UserId(users, t))
           => /\ sent'.kind = "switched"
              /\ DOMAIN documents' = DOMAIN documents
              /\ \A e \in DOMAIN documents :
                    documents'[e] =
                        IF e \in Siblings(d)
                        THEN [documents[e] EXCEPT !.active = (e = d)]
                        ELSE documents[e]]_vars

\* a user switched back to the first of their two documents: the second,
\* which the upload had made the active one, is inactive
C11_Witness ==
    /\ sent.kind = "switched"
    /\ sent.doc = 1
    /\ documents[1].active
    /\ \E e \in Siblings(1) : e # 1 /\ ~documents[e].active

\* C12: a successful ingestion commits in one step a new Document with
\* cursor 0 and active = true and active = false on every Document the user
\* owned before; the new Document is then the user's only active one.
C12_IngestionActivates ==
    [][\A t \in TelegramIds, f \in Filenames, x \in ExtractedTexts :
           (sent'.kind = "uploaded" /\ handle_document_upload(t, f, x))
           => LET u == UserId(users', t)
                  new == Len(documents) + 1
              IN /\ DOMAIN documents' = 1..new
                 /\ documents'[new] =
                        [user_id |-> u, filename |-> f, content |-> x,
                         current_position |-> 0, active |-> TRUE]
                 /\ \A e \in DOMAIN documents :
                       documents'[e] =
                           IF documents[e].user_id = u
                           THEN [documents[e] EXCEPT !.active = FALSE]
                           ELSE documents[e]
                 /\ {e \in DOMAIN documents' :
                        documents'[e].user_id = u /\ documents'[e].active}
                    = {new}]_vars

\* a user who had read part of a document uploaded a second one
C12_Witness ==
    /\ sent.kind = "uploaded"
    /\ sent.doc = 2
    /\ documents[1].user_id = documents[2].user_id
    /\ documents[1].current_position > 0
    /\ ~documents[1].active
    /\ documents[2].active
    /\ documents[2].current_position = 0

\* the file names of the model whose extension is pdf or epub
PdfOrEpub == {BookPdf, UpperPdf, BookEpub}

\* C13: an ingestion is rejected when the extension of the file name is not
\* a supported one or the extracted text has fewer than 10 characters, and a
\* text of exactly 10 characters is accepted; a rejected ingestion creates
\* no Document and leaves every document, its active flag and its cursor
\* as they were.
C13_RejectedIngestion ==
    [][\A t \in TelegramIds, f \in UploadNames, x \in UploadTexts :
           /\ ((f \notin PdfOrEpub \/ Len(x) < 10)
                  /\ handle_document_upload(t, f, x))
              => /\ sent'.kind \in {"unsupported", "no_text"}
                 /\ documents' = documents
                 /\ users' = users
           /\ ((f \in PdfOrEpub /\ Len(x) = 10)
                  /\ handle_document_upload(t, f, x))
              => /\ sent'.kind = "uploaded"
                 /\ Len(documents') = Len(documents) + 1]_vars

\* a file without text was rejected while a user is reading a document, and
\* a text of exactly ten characters has been accepted before
C13_Witness ==
    /\ sent.kind = "no_text"
    /\ \E d \in DOMAIN documents :
          documents[d].active /\ documents[d].current_position > 0
    /\ \E e \in DOMAIN documents : Len(documents[e].content) = 10

(***************************************************************************)
(* Properties of the advances: missing documents, failures, frame          *)
(***************************************************************************)
\* the user has no active document
NoActive(u) ==
    ~\E d \in DOMAIN documents : documents[d].user_id = u /\ documents[d].active

\* C14: an advance request of a user without an active document ends with
\* the no-active-document reply and changes no Document; the daily job
\* skips such a user without a message and without changing a Document.
C14_NoActiveDocument ==
    [][/\ \A t \in TelegramIds :
             (next_paragraph_query(t) /\ NoActive(UserId(users', t)))
             => /\ sent'.kind = "no_active_document"
                /\ documents' = documents
                /\ dispatcher' = dispatcher
       /\ (daily_query /\ NoActive(Head(daily.queue)))
          => /\ sent' = sent
             /\ documents' = documents
             /\ daily'.pc = "loop"
             /\ daily'.queue = Tail(daily.queue)]_vars

\* the daily job has gone through all users, one of them read on, and a
\* user without a document asked for the next fragment
C14_Witness ==
    /\ sent.kind = "no_active_document"
    /\ NoActive(sent.user)
    /\ daily.pc = "loop" /\ daily.queue = <<>>
    /\ \E d \in DOMAIN documents : documents[d].current_position > 0

C17_DeliveryFailureKeepsCursor ==
    [][/\ (Holds(dispatcher) /\ dispatcher' # dispatcher
              /\ sent'.kind = "handler_error")
          => /\ documents' = documents
             /\ dispatcher'.pc = "idle"
       /\ (Holds(daily) /\ daily' # daily /\ sent'.kind = "daily_error")
          => /\ documents' = documents
             /\ daily'.pc = "loop"
             /\ daily'.queue = Tail(daily.queue)]_vars

\* the reply of /siguiente failed and the cursor is where the failed
\* advance put it
C17_Witness ==
    /\ sent.kind = "handler_error"
    /\ dispatcher.pc = "idle"
    /\ documents[sent.doc].current_position > 0
    /\ daily.pc = "idle"

\* the commit of the thread changes nothing but the cursor of the active
\* document of the thread's user
Frame(thread) ==
    /\ documents[thread.doc].user_id = thread.user
    /\ documents[thread.doc].active
    /\ DOMAIN documents' = DOMAIN documents
    /\ \A d \in DOMAIN documents :
          documents'[d] =
              IF d = thread.doc
              THEN [documents[d] EXCEPT !.current_position =
                                            documents'[d].current_position]
              ELSE documents[d]

Malformed == before < 0 \/ before > Len(obj.content)

\* C15: get_next_paragraph called with offset < 0 or offset > len(text)
\* fails with an error: it returns neither a fragment nor the terminal
\* result, so the call leaves no (paragraph, is_final) pair behind.
C15_MalformedFailsFast ==
    (calls > 0 /\ Malformed) => Len(ret) # 2

\* the last call is the call of scenario A: from offset 0 with minLen 10
ScenarioACall ==
    /\ calls > 0
    /\ obj.content = ScenarioA
    /\ before = 0
    /\ args = [min_length |-> 10, max_length |-> DefaultMaxLength]

\* C19 as stated: scenario A returns the fragment "Hello world." and a new
\* offset just after the 13 characters "Hello world. ".
C19_ScenarioA ==
    ScenarioACall
    => (ret[1] = HelloWorld /\ obj.current_position = Len(HelloWorld) + 1)

\* C19 as amended: scenario A returns the fragment "Hello world." and a new
\* offset just after the 12 characters "Hello world."; the space after the
\* period is left to the next fragment.
C19_ScenarioA_Amended ==
    ScenarioACall
    => /\ ret = <<HelloWorld, FALSE>>
       /\ obj.current_position = Len(HelloWorld)
       /\ obj.content[obj.current_position + 1] = " "

\* the call of scenario A has been made and returned "Hello world."
C19_Witness == ScenarioACall /\ calls = 1 /\ ret[1] = HelloWorld

\* the natural boundaries of the last call: the 1-based positions j of a
\* '.', '!' or '?' followed by a space or newline, with at least min_length
\* characters scanned from the cursor up to j
Boundaries ==
    {j \in (before + 1)..(Len(obj.content) - 1) :
        /\ obj.content[j] \in {".", "!", "?"}
        /\ obj.content[j + 1] \in {" ", "\n"}
        /\ j - before >= args.min_length}

\* the earliest natural boundary lies before the max_length-th character
BoundaryFirst ==
    /\ calls > 0
    /\ Boundaries # {}
    /\ SetMin(Boundaries) - before < args.max_length

\* C20: when the earliest natural boundary lies strictly before the
\* max_length-th scanned character the cut is made there: the new offset is
\* the index just after the punctuation mark, at least min_length past the
\* old one, and the fragment is text[offset:newOffset] trimmed.
C20_NaturalBoundary ==
    BoundaryFirst
    => /\ obj.current_position = SetMin(Boundaries)
       /\ obj.current_position - before >= args.min_length
       /\ ret[1] = Strip(SubSeq(obj.content, before + 1, SetMin(Boundaries)))

\* a cut at a natural boundary whose fragment was trimmed and whose
\* following whitespace is still ahead of the cursor
C20_Witness ==
    /\ BoundaryFirst
    /\ Len(ret[1]) < obj.current_position - before
    /\ obj.content[obj.current_position + 1] \in {" ", "\n"}

(***************************************************************************)
(* Properties of the segmentation: the tie at the cap and the tail         *)
(***************************************************************************)
\* the last call scanned max_length characters without a natural boundary
\* before the max_length-th one
CapReached ==
    /\ calls > 0
    /\ before + args.max_length <= Len(obj.content)
    /\ \A j \in Boundaries : j - before >= args.max_length

\* the max_length-th scanned character is itself a natural boundary
Tie == CapReached /\ before + args.max_length \in Boundaries

\* the first (1-based) position of last_part, the slice the code searches
\* for a space, and of the last 100 scanned characters
SearchedFrom == before + Max(0, args.max_length - 1 - LastPartLen) + 1
LastHundredFrom == before + Max(0, args.max_length - 100) + 1

\* the cut of the hard cap rule: the 0-based index of the last space among
\* the scanned characters from position `first` (1-based) on, and
\* offset + max_length when there is no space among them
CapCut(first) ==
    LET spaces == {j \in first..(before + args.max_length) :
                      obj.content[j] = " "}
    IN IF spaces = {} THEN before + args.max_length
       ELSE SetMax(spaces) - 1

\* C21 as stated: when no natural boundary qualified before the
\* max_length-th scanned character the hard cap decides the cut, also when
\* that character is itself a qualifying natural boundary.
C21_CapWinsTie ==
    CapReached => obj.current_position = CapCut(SearchedFrom)

\* C21 as amended: when no natural boundary qualified before the
\* max_length-th scanned character, the hard cap decides the cut on that
\* step unless that character is itself a qualifying natural boundary; then
\* the natural boundary rule decides and the cut is right after it, at
\* offset + max_length.
C21_NaturalWinsTie ==
    CapReached
    => obj.current_position = IF Tie THEN before + args.max_length
                              ELSE CapCut(SearchedFrom)

\* a tie in which the two rules give different cuts
C21_Witness ==
    /\ Tie
    /\ CapCut(SearchedFrom) # before + args.max_length
    /\ obj.current_position = before + args.max_length

\* the text ends in a punctuation mark that the last call reached without
\* an earlier cut
TailReached ==
    /\ calls > 0
    /\ before < Len(obj.content)
    /\ obj.content[Len(obj.content)] \in {".", "!", "?"}
    /\ Boundaries = {}
    /\ Len(obj.content) - before <= args.max_length

\* the call returned the whole rest of the text as the final fragment
WholeRest ==
    /\ obj.current_position = Len(obj.content)
    /\ ret = <<Strip(SubSeq(obj.content, before + 1, Len(obj.content))), TRUE>>

\* C23 as stated: a punctuation mark that is the last character of the text
\* is no natural boundary, and whenever the scan reaches it without an
\* earlier cut the fragment is the whole rest, the new offset is len(text)
\* and is_final is true.
C23_TailRule == TailReached => WholeRest

\* C23 as amended: the same, provided the last character is not the
\* max_length-th scanned one; when it is, the hard cap rule decides the cut.
C23_TailRule_Amended ==
    TailReached
    => IF Len(obj.content) - before < args.max_length THEN WholeRest
       ELSE obj.current_position = CapCut(SearchedFrom)

\* the rest of a text ending in a period, shorter than min_length, was
\* returned whole
C23_Witness ==
    /\ TailReached
    /\ Len(obj.content) - before < args.min_length
    /\ WholeRest
    /\ before > 0

(***************************************************************************)
(* Properties of the reading with the default lengths                      *)
(***************************************************************************)
\* the hard cap decided the cut of the last call
CapFired == CapReached /\ ~Tie

\* C22: when the hard cap fires the cut is at the last space among the last
\* 100 scanned characters (the new offset is the index of that space, which
\* the fragment excludes), and at offset + max_length when these 100
\* characters hold no space; a space further back is never used.
C22_HardCap ==
    CapFired
    => /\ obj.current_position = CapCut(LastHundredFrom)
       /\ ret[1] = Strip(SubSeq(obj.content, before + 1, obj.current_position))

\* C24: with the default lengths each call on a cursor below len(text)
\* moves it forward by at least min(100, len(text) - cursor); hence n calls
\* made one after the other leave the cursor at min(len(text), 100 * n) or
\* beyond, the cursor is at len(text) after len(text) / 100 calls, and every
\* call after that reports the end with is_final true.
C24_ReadingCompletes ==
    /\ calls > 0
       => obj.current_position - before >= Min(100, Len(obj.content) - before)
    /\ obj.current_position >= Min(Len(obj.content), 100 * calls)
    /\ 100 * calls >= Len(obj.content) + 100 => ret = <<EndOfDocument, TRUE>>

\* a long document was read from its start to its end, and the calls after
\* that reported the end
C24_Witness ==
    /\ calls = MaxReads
    /\ obj.current_position = Len(obj.content)
    /\ ret = <<EndOfDocument, TRUE>>
    /\ Len(obj.content) > DefaultMaxLength
    /\ 100 * calls >= Len(obj.content) + 100

\* the documents that were there before the step kept everything but,
\* possibly, their active flag
OnlyFlags ==
    /\ DOMAIN documents \subseteq DOMAIN documents'
    /\ \A e \in DOMAIN documents :
          documents'[e] = [documents[e] EXCEPT !.active = documents'[e].active]

\* C25: save_document (called by a successful upload) and activate_document
\* (called by the switch callback) change only active flags, and
\* save_document appends the new Document: the text and the cursor (and the
\* owner and file name) of every Document that existed are the same after
\* the step, so a document that is activated again still has the cursor of
\* its last advance.
C25_OnlyActiveFlags ==
    [][/\ \A t \in TelegramIds, d \in 1..MaxDocs :
             (/\ sent'.kind \in {"switched", "switch_failed"}
              /\ handle_switch_callback(t, d))
             => OnlyFlags /\ DOMAIN documents' = DOMAIN documents
       /\ \A t \in TelegramIds, f \in Filenames, x \in ExtractedTexts :
             (sent'.kind = "uploaded" /\ handle_document_upload(t, f, x))
             => OnlyFlags /\ DOMAIN documents' = 1..(Len(documents) + 1)]_vars

\* a user read part of their first document, uploaded a second one, which
\* deactivated the first, and switched back: the first document is active
\* again at the cursor the reading left
C25_Witness ==
    /\ sent.kind = "switched"
    /\ sent.doc = 1
    /\ Len(documents) = 2
    /\ documents[2].user_id = documents[1].user_id
    /\ documents[1].active
    /\ documents[1].current_position > 0
    /\ documents[1].current_position < Len(documents[1].content)

====
